---- MODULE Spec2Model ----
(***************************************************************************)
(* Model of the weather archive gateway (src/app.py): a Flask service that *)
(* validates a store request, fetches a JSON document from the Open-Meteo  *)
(* archive, writes it to a Google Cloud Storage bucket under a generated   *)
(* filename, and lists / reads the stored files.                           *)
(*                                                                         *)
(* Python values are modelled as records [t |-> type, v |-> payload]:      *)
(*   int    v is the integer                                               *)
(*   float  v is the value in hundredths (52.52 is 5252)                   *)
(*   bool   v is TRUE or FALSE                                             *)
(*   null   v is 0                                                         *)
(*   str    v is the sequence of its characters                            *)
(*   list   v is the sequence of its elements                              *)
(*   dict   v is the sequence of its <<key, value>> pairs, key a sequence  *)
(*          of characters, in insertion order                              *)
(***************************************************************************)
EXTENDS Integers, Sequences, FiniteSets, TLC

(***************************************************************************)
(* Bounds of the model.                                                    *)
(***************************************************************************)
\* number of request-handling threads of the (threaded) HTTP server
NumThreads == 2
\* number of requests the server handles in one behaviour
MaxRequests == 3
\* number of seconds the wall clock advances in one behaviour
MaxClock == 1

(***************************************************************************)
(* Python values.                                                          *)
(***************************************************************************)
PyInt(n) == [t |-> "int", v |-> n]
PyFloat(h) == [t |-> "float", v |-> h]
PyBool(b) == [t |-> "bool", v |-> b]
PyNull == [t |-> "null", v |-> 0]
PyStr(s) == [t |-> "str", v |-> s]
PyList(s) == [t |-> "list", v |-> s]
PyDict(s) == [t |-> "dict", v |-> s]

Digits == <<"0", "1", "2", "3", "4", "5", "6", "7", "8", "9">>

IsDigit(c) == \E i \in 1..10 : Digits[i] = c

DigitVal(c) == (CHOOSE i \in 1..10 : Digits[i] = c) - 1

\* The characters of the strings the model compares, in code point order.
Alphabet ==
  <<" ", "-", ".", "/", "0", "1", "2", "3", "4", "5", "6", "7", "8", "9",
    "J", "T", "_", "a", "d", "e", "g", "i", "l", "n", "o", "r", "s", "t", "u">>

Ord(c) == CHOOSE i \in 1..Len(Alphabet) : Alphabet[i] = c

Min(a, b) == IF a < b THEN a ELSE b

\* Python's str.__gt__: lexicographic by code point, a proper prefix is less.
StrGreater(a, b) ==
  \/ \E i \in 1..Min(Len(a), Len(b)) :
       /\ \A j \in 1..(i - 1) : a[j] = b[j]
       /\ Ord(a[i]) > Ord(b[i])
  \/ /\ Len(a) > Len(b)
     /\ \A j \in 1..Len(b) : a[j] = b[j]

\* Python's `sub in s` for strings: sub occurs as a contiguous slice of s.
IsSubstring(sub, s) ==
  \E i \in 0..(Len(s) - Len(sub)) :
    \A j \in 1..Len(sub) : s[i + j] = sub[j]

(***************************************************************************)
(* datetime.strptime(date_string, '%Y-%m-%d').                             *)
(* The format compiles to the regular expression                           *)
(*   (?P<Y>\d\d\d\d)-(?P<m>1[0-2]|0[1-9]|[1-9])-                           *)
(*   (?P<d>3[0-1]|[1-2]\d|0[1-9]|[1-9]| [1-9])                             *)
(* which must match at the start of the string and consume all of it; the  *)
(* fields must then make a date (year >= 1, day within the month).         *)
(***************************************************************************)
At(s, i) == IF i >= 1 /\ i <= Len(s) THEN s[i] ELSE "$"

IsNonZeroDigit(c) == IsDigit(c) /\ c # "0"

\* Number of characters the month alternatives take at position i (0: none).
MonthWidth(s, i) ==
  IF At(s, i) = "1" /\ At(s, i + 1) \in {"0", "1", "2"} THEN 2
  ELSE IF At(s, i) = "0" /\ IsNonZeroDigit(At(s, i + 1)) THEN 2
  ELSE IF IsNonZeroDigit(At(s, i)) THEN 1
  ELSE 0

\* Number of characters the day alternatives take at position i (0: none).
DayWidth(s, i) ==
  IF At(s, i) = "3" /\ At(s, i + 1) \in {"0", "1"} THEN 2
  ELSE IF At(s, i) \in {"1", "2"} /\ IsDigit(At(s, i + 1)) THEN 2
  ELSE IF At(s, i) = "0" /\ IsNonZeroDigit(At(s, i + 1)) THEN 2
  ELSE IF IsNonZeroDigit(At(s, i)) THEN 1
  ELSE IF At(s, i) = " " /\ IsNonZeroDigit(At(s, i + 1)) THEN 2
  ELSE 0

\* The integer a matched field denotes (int() of the group, blanks stripped).
FieldVal(s, i, w) ==
  IF w = 1 THEN DigitVal(s[i])
  ELSE IF s[i] = " " THEN DigitVal(s[i + 1])
  ELSE 10 * DigitVal(s[i]) + DigitVal(s[i + 1])

IsLeap(y) == (y % 4 = 0 /\ y % 100 # 0) \/ y % 400 = 0

DaysInMonth(y, m) ==
  IF m = 2 THEN (IF IsLeap(y) THEN 29 ELSE 28)
  ELSE IF m \in {4, 6, 9, 11} THEN 30
  ELSE 31

NoDate == [ok |-> FALSE, y |-> 0, m |-> 0, d |-> 0]

\* The date strptime returns for the character sequence s, or NoDate where it
\* raises ValueError.
StrpTime(s) ==
  IF ~(Len(s) >= 5 /\ (\A i \in 1..4 : IsDigit(s[i])) /\ s[5] = "-") THEN NoDate
  ELSE
    LET mw == MonthWidth(s, 6)
        di == 6 + mw + 1
        dw == DayWidth(s, di)
    IN IF mw = 0 \/ At(s, 6 + mw) # "-" \/ dw = 0 THEN NoDate
       ELSE IF di + dw - 1 # Len(s) THEN NoDate
       ELSE
         LET y == 1000 * DigitVal(s[1]) + 100 * DigitVal(s[2])
                    + 10 * DigitVal(s[3]) + DigitVal(s[4])
             m == FieldVal(s, 6, mw)
             d == FieldVal(s, di, dw)
         IN IF y < 1 \/ d > DaysInMonth(y, m) THEN NoDate
            ELSE [ok |-> TRUE, y |-> y, m |-> m, d |-> d]

\* validate_date_format: "True", "False", or "TypeError" where strptime raises
\* TypeError (argument 1 must be str), which the function does not catch.
validate_date_format(date_string) ==
  IF date_string.t # "str" THEN "TypeError"
  ELSE IF StrpTime(date_string.v).ok THEN "True"
  ELSE "False"

\* The number a Python int, float or bool compares as, in hundredths.
Hundredths(x) ==
  IF x.t = "int" THEN 100 * x.v
  ELSE IF x.t = "float" THEN x.v
  ELSE IF x.v THEN 100 ELSE 0

\* isinstance(x, (int, float)): bool is a subclass of int.
IsIntOrFloat(x) == x.t \in {"int", "float", "bool"}

validate_coordinates(latitude, longitude) ==
  IF ~IsIntOrFloat(latitude) \/ ~IsIntOrFloat(longitude) THEN FALSE
  ELSE IF ~(-9000 <= Hundredths(latitude) /\ Hundredths(latitude) <= 9000)
          \/ ~(-18000 <= Hundredths(longitude) /\ Hundredths(longitude) <= 18000)
       THEN FALSE
  ELSE TRUE

(***************************************************************************)
(* The validation part of store_weather_data.                              *)
(***************************************************************************)
K_latitude == <<"l", "a", "t", "i", "t", "u", "d", "e">>
K_longitude == <<"l", "o", "n", "g", "i", "t", "u", "d", "e">>
K_start_date == <<"s", "t", "a", "r", "t", "_", "d", "a", "t", "e">>
K_end_date == <<"e", "n", "d", "_", "d", "a", "t", "e">>

required_fields == <<K_latitude, K_longitude, K_start_date, K_end_date>>

MissingMessage ==
  <<"Missing required field: latitude", "Missing required field: longitude",
    "Missing required field: start_date", "Missing required field: end_date">>

\* `field in data`: "True", "False", or "TypeError" for a value that is no
\* container.
Contains(data, field) ==
  IF data.t = "dict" THEN
    (IF \E i \in 1..Len(data.v) : data.v[i][1] = field THEN "True" ELSE "False")
  ELSE IF data.t = "list" THEN
    (IF \E i \in 1..Len(data.v) : data.v[i].t = "str" /\ data.v[i].v = field
     THEN "True" ELSE "False")
  ELSE IF data.t = "str" THEN
    (IF IsSubstring(field, data.v) THEN "True" ELSE "False")
  ELSE "TypeError"

\* data[field] of a dict that holds the key.
Lookup(data, field) ==
  data.v[CHOOSE i \in 1..Len(data.v) : data.v[i][1] = field][2]

Reply(status, error) == [status |-> status, error |-> error]

\* The handler's reply to an exception no except clause names (line 180).
InternalError == Reply(500, "Internal server error")

\* Validation passed: the handler goes on to fetch.
Proceed == Reply(0, "")

\* A request is [json |-> is_json, parses |-> whether get_json parses the
\* body, data |-> the parsed body].  Lines 113-141 of the handler.
StoreValidation(req) ==
  IF ~req.json THEN Reply(400, "Request must be JSON")
  ELSE IF ~req.parses THEN InternalError
  ELSE
    LET data == req.data
        bad == {i \in 1..4 : Contains(data, required_fields[i]) # "True"}
        first == CHOOSE i \in bad : \A j \in bad : i <= j
    IN IF bad # {} THEN
         (IF Contains(data, required_fields[first]) = "TypeError" THEN InternalError
          ELSE Reply(400, MissingMessage[first]))
       ELSE IF data.t # "dict" THEN InternalError
       ELSE
         LET latitude == Lookup(data, K_latitude)
             longitude == Lookup(data, K_longitude)
             start_date == Lookup(data, K_start_date)
             end_date == Lookup(data, K_end_date)
             vs == validate_date_format(start_date)
             ve == validate_date_format(end_date)
         IN IF ~validate_coordinates(latitude, longitude)
              THEN Reply(400, "Invalid latitude or longitude values")
            ELSE IF vs = "TypeError" THEN InternalError
            ELSE IF vs = "False" THEN Reply(400, "Invalid date format. Use YYYY-MM-DD")
            ELSE IF ve = "TypeError" THEN InternalError
            ELSE IF ve = "False" THEN Reply(400, "Invalid date format. Use YYYY-MM-DD")
            ELSE IF StrGreater(start_date.v, end_date.v)
              THEN Reply(400, "start_date must be before or equal to end_date")
            ELSE Proceed

(***************************************************************************)
(* str() of the values an f-string formats, as character sequences.        *)
(***************************************************************************)
RECURSIVE NatStr(_)
NatStr(n) == IF n < 10 THEN <<Digits[n + 1]>> ELSE NatStr(n \div 10) \o <<Digits[(n % 10) + 1]>>

IntStr(n) == IF n < 0 THEN <<"-">> \o NatStr(-n) ELSE NatStr(n)

\* repr of a float given in hundredths: 5.0, 52.5, 52.52, -0.25.
FloatStr(h) ==
  LET a == IF h < 0 THEN -h ELSE h
      frac == IF a % 100 = 0 THEN <<"0">>
              ELSE IF a % 10 = 0 THEN <<Digits[((a % 100) \div 10) + 1]>>
              ELSE <<Digits[((a % 100) \div 10) + 1], Digits[(a % 10) + 1]>>
  IN (IF h < 0 THEN <<"-">> ELSE <<>>) \o NatStr(a \div 100) \o <<".">> \o frac

Format(x) ==
  IF x.t = "int" THEN IntStr(x.v)
  ELSE IF x.t = "float" THEN FloatStr(x.v)
  ELSE IF x.t = "bool" THEN (IF x.v THEN <<"T", "r", "u", "e">> ELSE <<"F", "a", "l", "s", "e">>)
  ELSE x.v

\* A number zero-padded to two digits (%m, %d, %H, %M, %S).
Pad2(n) == <<Digits[(n \div 10) + 1], Digits[(n % 10) + 1]>>

\* The wall clock when the process starts: the date, and the second of the day.
Epoch == [year |-> 2023, month |-> 11, day |-> 3, second |-> 61199]

\* datetime.now() after `clock` seconds, to the second strftime keeps.
Now(clock) == [year |-> Epoch.year, month |-> Epoch.month, day |-> Epoch.day,
               second |-> Epoch.second + clock]

\* strftime("%Y%m%d_%H%M%S")
Strftime(now) ==
  NatStr(now.year) \o Pad2(now.month) \o Pad2(now.day) \o <<"_">>
    \o Pad2(now.second \div 3600) \o Pad2((now.second % 3600) \div 60)
    \o Pad2(now.second % 60)

\* generate_filename with start_date and end_date in each other's place: the
\* fault C4 is shown to exclude.
generate_filename_swapped(latitude, longitude, start_date, end_date, now) ==
  <<"weather_data_lat">> \o Format(latitude) \o <<"_lon">> \o Format(longitude)
    \o <<"_">> \o Format(end_date) \o <<"_to_">> \o Format(start_date)
    \o <<"_">> \o Strftime(now) \o <<".json">>

\* The literal parts of the filename are kept as one element each.
generate_filename(latitude, longitude, start_date, end_date, now) ==
  <<"weather_data_lat">> \o Format(latitude) \o <<"_lon">> \o Format(longitude)
    \o <<"_">> \o Format(start_date) \o <<"_to_">> \o Format(end_date)
    \o <<"_">> \o Strftime(now) \o <<".json">>

(***************************************************************************)
(* json.dumps and json.loads, at the level of tokens: a scalar is one      *)
(* token, the punctuation of lists and dicts is kept.                      *)
(***************************************************************************)
Punct(c) == [t |-> "punct", v |-> c]

RECURSIVE Dumps(_), DumpsItems(_, _), DumpsPairs(_, _)
Dumps(x) ==
  IF x.t = "list" THEN <<Punct("[")>> \o DumpsItems(x.v, 1) \o <<Punct("]")>>
  ELSE IF x.t = "dict" THEN <<Punct("{")>> \o DumpsPairs(x.v, 1) \o <<Punct("}")>>
  ELSE <<x>>

\* DumpsItems without the separators between the items, which json.loads does
\* not read back: the fault C2 is shown to exclude.
DumpsItemsUnseparated(s, i) ==
  IF i > Len(s) THEN <<>> ELSE Dumps(s[i]) \o DumpsItems(s, i + 1)

DumpsItems(s, i) ==
  IF i > Len(s) THEN <<>>
  ELSE (IF i > 1 THEN <<Punct(",")>> ELSE <<>>) \o Dumps(s[i]) \o DumpsItems(s, i + 1)

DumpsPairs(s, i) ==
  IF i > Len(s) THEN <<>>
  ELSE (IF i > 1 THEN <<Punct(",")>> ELSE <<>>) \o <<PyStr(s[i][1]), Punct(":")>>
         \o Dumps(s[i][2]) \o DumpsPairs(s, i + 1)

\* A parse is [ok, val, next]: the value read and the index after it.
ParseFail == [ok |-> FALSE, val |-> PyNull, next |-> 0]

IsPunct(toks, i, c) == i <= Len(toks) /\ toks[i].t = "punct" /\ toks[i].v = c

RECURSIVE ParseValue(_, _), ParseItems(_, _, _), ParsePairs(_, _, _)
ParseValue(toks, i) ==
  IF i > Len(toks) THEN ParseFail
  ELSE IF IsPunct(toks, i, "[") THEN
    (IF IsPunct(toks, i + 1, "]") THEN [ok |-> TRUE, val |-> PyList(<<>>), next |-> i + 2]
     ELSE ParseItems(toks, i + 1, <<>>))
  ELSE IF IsPunct(toks, i, "{") THEN
    (IF IsPunct(toks, i + 1, "}") THEN [ok |-> TRUE, val |-> PyDict(<<>>), next |-> i + 2]
     ELSE ParsePairs(toks, i + 1, <<>>))
  ELSE IF toks[i].t = "punct" THEN ParseFail
  ELSE [ok |-> TRUE, val |-> toks[i], next |-> i + 1]

ParseItems(toks, i, acc) ==
  LET r == ParseValue(toks, i)
  IN IF ~r.ok THEN ParseFail
     ELSE IF IsPunct(toks, r.next, ",") THEN ParseItems(toks, r.next + 1, Append(acc, r.val))
     ELSE IF IsPunct(toks, r.next, "]")
       THEN [ok |-> TRUE, val |-> PyList(Append(acc, r.val)), next |-> r.next + 1]
     ELSE ParseFail

ParsePairs(toks, i, acc) ==
  IF ~(i <= Len(toks) /\ toks[i].t = "str" /\ IsPunct(toks, i + 1, ":")) THEN ParseFail
  ELSE
    LET r == ParseValue(toks, i + 2)
    IN IF ~r.ok THEN ParseFail
       ELSE IF IsPunct(toks, r.next, ",")
         THEN ParsePairs(toks, r.next + 1, Append(acc, <<toks[i].v, r.val>>))
       ELSE IF IsPunct(toks, r.next, "}")
         THEN [ok |-> TRUE, val |-> PyDict(Append(acc, <<toks[i].v, r.val>>)), next |-> r.next + 1]
       ELSE ParseFail

\* json.loads: the value, or not ok where it raises JSONDecodeError.
Loads(toks) ==
  LET r == ParseValue(toks, 1)
  IN IF r.ok /\ r.next = Len(toks) + 1 THEN r ELSE ParseFail

(***************************************************************************)
(* Inputs of the model.                                                    *)
(***************************************************************************)
D_2023_01_01 == <<"2", "0", "2", "3", "-", "0", "1", "-", "0", "1">>
D_2023_01_02 == <<"2", "0", "2", "3", "-", "0", "1", "-", "0", "2">>
D_2023_02_01 == <<"2", "0", "2", "3", "-", "0", "2", "-", "0", "1">>
D_2023_10_01 == <<"2", "0", "2", "3", "-", "1", "0", "-", "0", "1">>
D_2024_02_29 == <<"2", "0", "2", "4", "-", "0", "2", "-", "2", "9">>
D_2023_02_30 == <<"2", "0", "2", "3", "-", "0", "2", "-", "3", "0">>
D_2023_13_01 == <<"2", "0", "2", "3", "-", "1", "3", "-", "0", "1">>
D_2023_2_01 == <<"2", "0", "2", "3", "-", "2", "-", "0", "1">>
D_2023_9_1 == <<"2", "0", "2", "3", "-", "9", "-", "1">>
D_slashes == <<"2", "0", "2", "3", "/", "0", "1", "/", "0", "1">>
D_words == <<"J", "a", "n", " ", "1", " ", "2", "0", "2", "3">>

\* The body of a store request: a dict of the fields that are given.
Missing == [t |-> "missing", v |-> 0]

Body(latitude, longitude, start_date, end_date) ==
  PyDict(SelectSeq(<<<<K_latitude, latitude>>, <<K_longitude, longitude>>,
                     <<K_start_date, start_date>>, <<K_end_date, end_date>>>>,
                   LAMBDA pair : pair[2].t # "missing"))

JsonRequest(data) == [json |-> TRUE, parses |-> TRUE, data |-> data]

\* The requests the threads of the service are sent.
RequestA == JsonRequest(Body(PyFloat(5252), PyInt(-13), PyStr(D_2023_01_01), PyStr(D_2023_01_02)))
RequestBad == JsonRequest(Body(PyInt(10), PyFloat(2050), PyStr(D_2023_01_01), Missing))

StoreRequests == {RequestA, RequestBad}

\* The requests the validation is checked on.
LatitudeInputs ==
  {PyInt(10), PyInt(91), PyFloat(-9000), PyFloat(-9001), PyBool(TRUE),
   PyStr(<<"1", "0">>), PyNull, Missing}
LongitudeInputs == {PyInt(-180), PyInt(181), PyFloat(2050), PyList(<<>>), Missing}
DateInputs ==
  {PyStr(D_2023_01_01), PyStr(D_2023_02_01), PyStr(D_2023_10_01), PyStr(D_2024_02_29),
   PyStr(D_2023_02_30), PyStr(D_2023_13_01), PyStr(D_2023_2_01), PyStr(D_2023_9_1),
   PyStr(D_slashes), PyStr(D_words), PyInt(20230101), PyNull, Missing}

ValidationInputs ==
  {JsonRequest(Body(la, lo, sd, ed)) :
     la \in LatitudeInputs, lo \in LongitudeInputs, sd \in DateInputs, ed \in DateInputs}
  \cup {JsonRequest(d) :
          d \in {PyNull, PyInt(5), PyBool(TRUE), PyFloat(150), PyList(<<>>),
                 PyList(<<PyStr(K_latitude), PyStr(K_longitude), PyStr(K_start_date),
                          PyStr(K_end_date)>>),
                 PyStr(K_latitude),
                 PyStr(K_latitude \o K_longitude \o K_start_date \o K_end_date)}}
  \cup {[json |-> FALSE, parses |-> FALSE, data |-> PyNull],
        [json |-> TRUE, parses |-> FALSE, data |-> PyNull]}

\* JSON documents the remote weather source answers with.
K_daily == <<"d", "a", "i", "l", "y">>
K_time == <<"t", "i", "m", "e">>
K_tmax == <<"t", "e", "m", "p", "e", "r", "a", "t", "u", "r", "e", "_", "2", "m", "_", "m", "a", "x">>
K_tmin == <<"t", "e", "m", "p", "e", "r", "a", "t", "u", "r", "e", "_", "2", "m", "_", "m", "i", "n">>

WeatherA ==
  PyDict(<<<<K_latitude, PyFloat(1000)>>,
           <<K_daily, PyDict(<<<<K_time, PyList(<<PyStr(D_2023_01_01), PyStr(D_2023_01_02)>>)>>,
                               <<K_tmax, PyList(<<PyFloat(310), PyNull>>)>>>>)>>>>)
WeatherB == PyDict(<<<<K_latitude, PyFloat(1000)>>, <<K_daily, PyDict(<<>>)>>>>)

WeatherBodies == {WeatherA, WeatherB}

\* The sample document the read handler answers with in mock mode.
SampleData ==
  PyDict(<<<<K_latitude, PyFloat(5252)>>, <<K_longitude, PyFloat(1341)>>,
           <<K_daily, PyDict(<<<<K_time, PyList(<<PyStr(D_2023_01_01)>>)>>,
                               <<K_tmax, PyList(<<PyFloat(500)>>)>>,
                               <<K_tmin, PyList(<<PyFloat(-200)>>)>>>>)>>>>)

\* A filename no store request generates.
NoSuchFile == <<"n", "o", "n", "e", ".json">>

\* The exceptions a blob-store call raises: one of requests' (the storage
\* library's transport), or any other.
StorageErrors == {"RequestException", "Exception"}

(***************************************************************************)
(* State.                                                                  *)
(***************************************************************************)
VARIABLES
  devMode,         \* os.environ DEVELOPMENT_MODE == 'true'
  mockGcs,         \* os.environ MOCK_GCS == 'true'
  storage_client,  \* the global handle: 0 is None, n the n-th storage.Client()
  clientsMade,     \* number of storage.Client() calls that returned a client
  bucketExists,    \* the blob store: whether the bucket exists
  blobs,           \* the blob store: filename -> stored text (tokens)
  clock,           \* seconds since the process started
  handled,         \* number of requests received
  th,              \* per thread: the request it handles, its locals, its reply
  acked,           \* history: the 201 replies of store requests
  uploads,         \* history: the uploads, in order
  vreq,            \* the request of a validation run
  vout             \* the reply of a validation run

vars == <<devMode, mockGcs, storage_client, clientsMade, bucketExists, blobs, clock,
          handled, th, acked, uploads, vreq, vout>>

Threads == 1..NumThreads

NoRequest == [json |-> FALSE, parses |-> FALSE, data |-> PyNull]

\* A reply: the status and the fields of the JSON body (those a reply does not
\* carry are left at their defaults).
NoResp == [status |-> 0, error |-> "", filename |-> <<>>, data |-> PyNull,
           location |-> <<>>, date_range |-> <<>>, files |-> {}, count |-> 0]

ErrorResp(status, error) == [NoResp EXCEPT !.status = status, !.error = error]

\* A thread: where it is in its handler (pc), the handler (op), the request,
\* the handler's locals, the reply, and a record of what the request did:
\*   fetches   calls of the remote weather source
\*   fetchOk   the remote call returned a document
\*   failed    the call that raised ("" if none)
\*   exc       the kind of the exception raised
\*   initFailed  storage.Client() raised
\*   mock      get_bucket returned None
\*   attempts, written   upload calls, and those that stored the object
\*   present, absent     whether the filename was a key of the blob store when
\*                       the request was answered
\*   ackedBefore         the 201 replies for the filename before a read began
Idle == [pc |-> "idle", op |-> "none", req |-> NoRequest, filename |-> <<>>,
         weather_data |-> PyNull, client |-> 0, resp |-> NoResp, fetches |-> 0,
         fetchOk |-> FALSE, failed |-> "", exc |-> "", initFailed |-> FALSE,
         mock |-> FALSE, attempts |-> 0, written |-> 0, present |-> FALSE,
         absent |-> FALSE, ackedBefore |-> {}]

EmptyStore == [f \in {} |-> <<>>]

Init ==
  /\ devMode \in BOOLEAN
  /\ mockGcs \in BOOLEAN
  /\ storage_client = 0
  /\ clientsMade = 0
  /\ bucketExists \in BOOLEAN
  /\ blobs = EmptyStore
  /\ clock = 0
  /\ handled = 0
  /\ th = [p \in Threads |-> Idle]
  /\ acked = {}
  /\ uploads = <<>>
  /\ vreq = NoRequest
  /\ vout = NoResp

(***************************************************************************)
(* Replies.                                                                *)
(***************************************************************************)
\* ExceptionReply with the general except clause of the store handler before
\* the one for RequestException: the fault C3 is shown to exclude.
ExceptionReplyGeneralFirst(op, exc) ==
  IF op = "store" THEN ErrorResp(500, "Internal server error")
  ELSE IF op = "list" THEN ErrorResp(500, "Failed to list files")
  ELSE ErrorResp(500, "Failed to retrieve file content")

\* The reply of a handler to an exception of kind exc raised inside its try
\* block: store lines 177-182, list 215-217, read 259-261.
ExceptionReply(op, exc) ==
  IF op = "store" THEN
    (IF exc = "RequestException"
       THEN ErrorResp(502, "Failed to fetch weather data from Open-Meteo API")
       ELSE ErrorResp(500, "Internal server error"))
  ELSE IF op = "list" THEN ErrorResp(500, "Failed to list files")
  ELSE ErrorResp(500, "Failed to retrieve file content")

\* Lines 164-175.
StoredReply(t) ==
  [NoResp EXCEPT !.status = 201,
                 !.filename = t.filename,
                 !.location = <<Lookup(t.req.data, K_latitude), Lookup(t.req.data, K_longitude)>>,
                 !.date_range = <<Lookup(t.req.data, K_start_date), Lookup(t.req.data, K_end_date)>>]

\* The reply to a read of a missing file when the exists() check is left out
\* and the download raises NotFound: the fault C5 is shown to exclude.
NotFoundReplyUnchecked == ErrorResp(500, "Failed to retrieve file content")

\* Line 245.
NotFoundReply == ErrorResp(404, "File not found")

\* The reply of a handler whose get_bucket returned None: store lines 151-154
\* and 162-175, list 190-197, read 225-240.
MockReply(t) ==
  IF t.op = "store" THEN StoredReply(t)
  ELSE IF t.op = "list" THEN [NoResp EXCEPT !.status = 200]
  ELSE [NoResp EXCEPT !.status = 200, !.filename = t.filename, !.data = SampleData]

\* The thread answers: its reply, and whether the filename is stored then.
Answer(t, resp, store) ==
  [t EXCEPT !.pc = "done", !.resp = resp,
            !.present = t.filename \in DOMAIN store,
            !.absent = t.filename \notin DOMAIN store]

\* A call of the handler raises (the kind of the exception is recorded where the
\* handler tells the kinds apart).
Raise(t, call, exc) ==
  Answer([t EXCEPT !.failed = call, !.exc = IF t.op = "store" THEN exc ELSE "Exception"],
         ExceptionReply(t.op, exc), blobs)

\* get_bucket returned None.
Mocked(t) == LET m == [t EXCEPT !.mock = TRUE] IN Answer(m, MockReply(m), blobs)

\* get_bucket returned the bucket: the handler goes on.
WithBucket(t) ==
  [t EXCEPT !.pc = IF t.op = "store" THEN "upload"
                   ELSE IF t.op = "list" THEN "list_blobs"
                   ELSE "blob_exists"]

\* The 201 reply a thread record holds, for the history.
AckOf(t) ==
  IF t.op = "store" /\ t.pc = "done" /\ t.resp.status = 201
    THEN {[filename |-> t.resp.filename, data |-> t.weather_data, live |-> ~t.mock]}
    ELSE {}

\* Thread p moves to t.
Step(p, t) ==
  /\ th' = [th EXCEPT ![p] = t]
  /\ acked' = acked \cup AckOf(t)

\* A request is handed to the first thread that is not handling one.
Free(p) ==
  /\ th[p].pc \in {"idle", "done"}
  /\ \A q \in Threads : q < p => th[q].pc \notin {"idle", "done"}
  /\ handled < MaxRequests

Begin(op) == [Idle EXCEPT !.op = op]

(***************************************************************************)
(* The wall clock.                                                         *)
(***************************************************************************)
Tick ==
  /\ clock < MaxClock
  /\ clock' = clock + 1
  /\ UNCHANGED <<devMode, mockGcs, storage_client, clientsMade, bucketExists, blobs,
                 handled, th, acked, uploads, vreq, vout>>

(***************************************************************************)
(* POST /store-weather-data                                                *)
(***************************************************************************)
\* Lines 113-141: the request arrives and is validated.
StoreValidate(p) ==
  /\ Free(p)
  /\ \E req \in StoreRequests :
       LET out == StoreValidation(req)
           t == [Begin("store") EXCEPT !.req = req]
       IN Step(p, IF out.status # 0
                    THEN Answer(t, ErrorResp(out.status, out.error), blobs)
                    ELSE [t EXCEPT !.pc = "fetch"])
  /\ handled' = handled + 1
  /\ UNCHANGED <<devMode, mockGcs, storage_client, clientsMade, bucketExists, blobs,
                 clock, uploads, vreq, vout>>

\* Lines 144-150: fetch_weather_data returns the document; the filename is
\* generated and get_bucket is entered.
FetchOk(p) ==
  /\ th[p].pc = "fetch"
  /\ \E body \in WeatherBodies :
       LET d == th[p].req.data
       IN Step(p, [th[p] EXCEPT
                     !.pc = "get_client",
                     !.fetches = @ + 1,
                     !.fetchOk = TRUE,
                     !.weather_data = body,
                     !.filename = generate_filename(Lookup(d, K_latitude), Lookup(d, K_longitude),
                                                    Lookup(d, K_start_date), Lookup(d, K_end_date),
                                                    Now(clock))])
  /\ UNCHANGED <<devMode, mockGcs, storage_client, clientsMade, bucketExists, blobs,
                 clock, handled, uploads, vreq, vout>>

\* Lines 83-89: requests.get or raise_for_status raises a RequestException
\* (network error, timeout, error status), which fetch_weather_data re-raises.
FetchFail(p) ==
  /\ th[p].pc = "fetch"
  /\ Step(p, Raise([th[p] EXCEPT !.fetches = @ + 1], "fetch", "RequestException"))
  /\ UNCHANGED <<devMode, mockGcs, storage_client, clientsMade, bucketExists, blobs,
                 clock, handled, uploads, vreq, vout>>

\* Lines 156-175: the upload, and the 201 reply.
Upload(p) ==
  /\ th[p].pc = "upload"
  /\ LET store == (th[p].filename :> Dumps(th[p].weather_data)) @@ blobs
         t == [th[p] EXCEPT !.attempts = @ + 1, !.written = @ + 1]
     IN /\ blobs' = store
        /\ uploads' = Append(uploads, [filename |-> th[p].filename, data |-> th[p].weather_data])
        /\ Step(p, Answer(t, StoredReply(t), store))
  /\ UNCHANGED <<devMode, mockGcs, storage_client, clientsMade, bucketExists, clock,
                 handled, vreq, vout>>

\* An upload that raises after the object was stored: the fault C10 is shown
\* to exclude.
UploadFailStored(p) ==
  /\ th[p].pc = "upload"
  /\ blobs' = (th[p].filename :> Dumps(th[p].weather_data)) @@ blobs
  /\ uploads' = Append(uploads, [filename |-> th[p].filename, data |-> th[p].weather_data])
  /\ \E exc \in StorageErrors :
       Step(p, Raise([th[p] EXCEPT !.attempts = @ + 1, !.written = @ + 1], "upload", exc))
  /\ UNCHANGED <<devMode, mockGcs, storage_client, clientsMade, bucketExists, clock,
                 handled, vreq, vout>>

\* Lines 157-160 and 180-182: upload_from_string raises.
UploadFail(p) ==
  /\ th[p].pc = "upload"
  /\ \E exc \in StorageErrors :
       Step(p, Raise([th[p] EXCEPT !.attempts = @ + 1], "upload", exc))
  /\ UNCHANGED <<devMode, mockGcs, storage_client, clientsMade, bucketExists, blobs,
                 clock, handled, uploads, vreq, vout>>

(***************************************************************************)
(* get_storage_client and get_bucket, as the three handlers call them.     *)
(***************************************************************************)
\* Lines 26-30 and 39: the global is read; a client that is there is returned.
GetClient(p) ==
  /\ th[p].pc = "get_client"
  /\ Step(p, IF storage_client # 0
               THEN [th[p] EXCEPT !.client = storage_client, !.pc = "bucket_exists"]
             ELSE IF devMode THEN Mocked(th[p])
             ELSE [th[p] EXCEPT !.pc = "construct"])
  /\ UNCHANGED <<devMode, mockGcs, storage_client, clientsMade, bucketExists, blobs,
                 clock, handled, uploads, vreq, vout>>

\* Line 32: storage.Client() returns and the global is assigned.
Construct(p) ==
  /\ th[p].pc = "construct"
  /\ clientsMade' = clientsMade + 1
  /\ storage_client' = clientsMade + 1
  /\ Step(p, [th[p] EXCEPT !.pc = "return_client"])
  /\ UNCHANGED <<devMode, mockGcs, bucketExists, blobs, clock, handled, uploads,
                 vreq, vout>>

\* Lines 33-38: storage.Client() raises; None is returned under MOCK_GCS.
ConstructFail(p) ==
  /\ th[p].pc = "construct"
  /\ LET t == [th[p] EXCEPT !.initFailed = TRUE]
     IN Step(p, IF mockGcs THEN Mocked(t) ELSE Raise(t, "client", "Exception"))
  /\ UNCHANGED <<devMode, mockGcs, storage_client, clientsMade, bucketExists, blobs,
                 clock, handled, uploads, vreq, vout>>

\* Line 39: the global is read again and returned.
ReturnClient(p) ==
  /\ th[p].pc = "return_client"
  /\ Step(p, [th[p] EXCEPT !.client = storage_client, !.pc = "bucket_exists"])
  /\ UNCHANGED <<devMode, mockGcs, storage_client, clientsMade, bucketExists, blobs,
                 clock, handled, uploads, vreq, vout>>

\* Lines 50-51 and 54: bucket.exists() answers.
BucketExists(p) ==
  /\ th[p].pc = "bucket_exists"
  /\ Step(p, IF bucketExists THEN WithBucket(th[p]) ELSE [th[p] EXCEPT !.pc = "create_bucket"])
  /\ UNCHANGED <<devMode, mockGcs, storage_client, clientsMade, bucketExists, blobs,
                 clock, handled, uploads, vreq, vout>>

\* Lines 55-57: bucket.exists() raises.
BucketExistsFail(p) ==
  /\ th[p].pc = "bucket_exists"
  /\ \E exc \in StorageErrors : Step(p, Raise(th[p], "bucket_exists", exc))
  /\ UNCHANGED <<devMode, mockGcs, storage_client, clientsMade, bucketExists, blobs,
                 clock, handled, uploads, vreq, vout>>

\* Lines 52-54: create_bucket creates the bucket.
CreateBucket(p) ==
  /\ th[p].pc = "create_bucket"
  /\ ~bucketExists
  /\ bucketExists' = TRUE
  /\ Step(p, WithBucket(th[p]))
  /\ UNCHANGED <<devMode, mockGcs, storage_client, clientsMade, blobs, clock, handled,
                 uploads, vreq, vout>>

\* Lines 52 and 55-57: the bucket exists by now, and create_bucket raises
\* Conflict.
CreateBucketConflict(p) ==
  /\ th[p].pc = "create_bucket"
  /\ bucketExists
  /\ Step(p, Raise(th[p], "conflict", "Exception"))
  /\ UNCHANGED <<devMode, mockGcs, storage_client, clientsMade, bucketExists, blobs,
                 clock, handled, uploads, vreq, vout>>

\* Lines 52 and 55-57: create_bucket raises for another reason.
CreateBucketFail(p) ==
  /\ th[p].pc = "create_bucket"
  /\ \E exc \in StorageErrors : Step(p, Raise(th[p], "create_bucket", exc))
  /\ UNCHANGED <<devMode, mockGcs, storage_client, clientsMade, bucketExists, blobs,
                 clock, handled, uploads, vreq, vout>>

(***************************************************************************)
(* GET /list-weather-files                                                 *)
(***************************************************************************)
\* Lines 188-189: the request arrives and get_bucket is entered.
ListStart(p) ==
  /\ Free(p)
  /\ Step(p, [Begin("list") EXCEPT !.pc = "get_client"])
  /\ handled' = handled + 1
  /\ UNCHANGED <<devMode, mockGcs, storage_client, clientsMade, bucketExists, blobs,
                 clock, uploads, vreq, vout>>

\* Lines 199-213: the blobs are listed (their names; sizes and times are not
\* modelled).
ListBlobs(p) ==
  /\ th[p].pc = "list_blobs"
  /\ Step(p, Answer(th[p], [NoResp EXCEPT !.status = 200, !.files = DOMAIN blobs,
                                          !.count = Cardinality(DOMAIN blobs)], blobs))
  /\ UNCHANGED <<devMode, mockGcs, storage_client, clientsMade, bucketExists, blobs,
                 clock, handled, uploads, vreq, vout>>

ListBlobsFail(p) ==
  /\ th[p].pc = "list_blobs"
  /\ \E exc \in StorageErrors : Step(p, Raise(th[p], "list_blobs", exc))
  /\ UNCHANGED <<devMode, mockGcs, storage_client, clientsMade, bucketExists, blobs,
                 clock, handled, uploads, vreq, vout>>

(***************************************************************************)
(* GET /weather-file-content/<filename>                                    *)
(***************************************************************************)
\* The filenames a client asks for: those it was given or finds stored, and
\* one that was never stored.
KnownFiles == {a.filename : a \in acked} \cup DOMAIN blobs \cup {NoSuchFile}

\* Lines 223-224: the request arrives and get_bucket is entered.
ReadStart(p) ==
  /\ Free(p)
  /\ \E f \in KnownFiles :
       Step(p, [Begin("read") EXCEPT !.pc = "get_client", !.filename = f,
                                     !.ackedBefore = {a \in acked : a.filename = f}])
  /\ handled' = handled + 1
  /\ UNCHANGED <<devMode, mockGcs, storage_client, clientsMade, bucketExists, blobs,
                 clock, uploads, vreq, vout>>

\* Lines 242-245: blob.exists() answers.
BlobExists(p) ==
  /\ th[p].pc = "blob_exists"
  /\ Step(p, IF th[p].filename \in DOMAIN blobs
               THEN [th[p] EXCEPT !.pc = "download"]
               ELSE Answer(th[p], NotFoundReply, blobs))
  /\ UNCHANGED <<devMode, mockGcs, storage_client, clientsMade, bucketExists, blobs,
                 clock, handled, uploads, vreq, vout>>

BlobExistsFail(p) ==
  /\ th[p].pc = "blob_exists"
  /\ \E exc \in StorageErrors : Step(p, Raise(th[p], "blob_exists", exc))
  /\ UNCHANGED <<devMode, mockGcs, storage_client, clientsMade, bucketExists, blobs,
                 clock, handled, uploads, vreq, vout>>

\* Lines 248-258: the text is downloaded and parsed.
Download(p) ==
  /\ th[p].pc = "download"
  /\ LET parsed == Loads(blobs[th[p].filename])
     IN Step(p, IF parsed.ok
                  THEN Answer(th[p], [NoResp EXCEPT !.status = 200,
                                                    !.filename = th[p].filename,
                                                    !.data = parsed.val], blobs)
                  ELSE Answer([th[p] EXCEPT !.failed = "loads", !.exc = "JSONDecodeError"],
                              ErrorResp(500, "Invalid JSON file"), blobs))
  /\ UNCHANGED <<devMode, mockGcs, storage_client, clientsMade, bucketExists, blobs,
                 clock, handled, uploads, vreq, vout>>

DownloadFail(p) ==
  /\ th[p].pc = "download"
  /\ \E exc \in StorageErrors : Step(p, Raise(th[p], "download", exc))
  /\ UNCHANGED <<devMode, mockGcs, storage_client, clientsMade, bucketExists, blobs,
                 clock, handled, uploads, vreq, vout>>

(***************************************************************************)
(* GET /health                                                             *)
(***************************************************************************)
\* Lines 266-271 (the reply's timestamp is not modelled).
HealthCheck(p) ==
  /\ Free(p)
  /\ Step(p, Answer(Begin("health"), [NoResp EXCEPT !.status = 200], blobs))
  /\ handled' = handled + 1
  /\ UNCHANGED <<devMode, mockGcs, storage_client, clientsMade, bucketExists, blobs,
                 clock, uploads, vreq, vout>>

(***************************************************************************)
(* The service: its threads take the requests as they come.                *)
(***************************************************************************)
Next ==
  \/ Tick
  \/ \E p \in Threads : StoreValidate(p)
  \/ \E p \in Threads : FetchOk(p)
  \/ \E p \in Threads : FetchFail(p)
  \/ \E p \in Threads : Upload(p)
  \/ \E p \in Threads : UploadFail(p)
  \/ \E p \in Threads : GetClient(p)
  \/ \E p \in Threads : Construct(p)
  \/ \E p \in Threads : ConstructFail(p)
  \/ \E p \in Threads : ReturnClient(p)
  \/ \E p \in Threads : BucketExists(p)
  \/ \E p \in Threads : BucketExistsFail(p)
  \/ \E p \in Threads : CreateBucket(p)
  \/ \E p \in Threads : CreateBucketConflict(p)
  \/ \E p \in Threads : CreateBucketFail(p)
  \/ \E p \in Threads : ListStart(p)
  \/ \E p \in Threads : ListBlobs(p)
  \/ \E p \in Threads : ListBlobsFail(p)
  \/ \E p \in Threads : ReadStart(p)
  \/ \E p \in Threads : BlobExists(p)
  \/ \E p \in Threads : BlobExistsFail(p)
  \/ \E p \in Threads : Download(p)
  \/ \E p \in Threads : DownloadFail(p)
  \/ \E p \in Threads : HealthCheck(p)

Spec == Init /\ [][Next]_vars

(***************************************************************************)
(* The validation of a store request, run on one request at a time.        *)
(***************************************************************************)
InitV ==
  /\ devMode = FALSE
  /\ mockGcs = FALSE
  /\ storage_client = 0
  /\ clientsMade = 0
  /\ bucketExists = TRUE
  /\ blobs = EmptyStore
  /\ clock = 0
  /\ handled = 0
  /\ th = [p \in Threads |-> Idle]
  /\ acked = {}
  /\ uploads = <<>>
  /\ vreq \in ValidationInputs
  /\ vout = NoResp

\* Lines 113-141 on the request: the reply, or status 0 where the handler goes
\* on to fetch.
Validate ==
  /\ handled = 0
  /\ handled' = 1
  /\ LET out == StoreValidation(vreq) IN vout' = ErrorResp(out.status, out.error)
  /\ UNCHANGED <<devMode, mockGcs, storage_client, clientsMade, bucketExists, blobs,
                 clock, th, acked, uploads, vreq>>

NextV == Validate

SpecV == InitV /\ [][NextV]_vars

(***************************************************************************)
(* What the claims speak of.                                               *)
(***************************************************************************)
StoreDone(p) == th[p].op = "store" /\ th[p].pc = "done"

ReadDone(p) == th[p].op = "read" /\ th[p].pc = "done"

\* The calls of the blob store that can raise.
StorageCalls ==
  {"client", "bucket_exists", "create_bucket", "conflict", "upload", "list_blobs",
   "blob_exists", "download"}

\* A date string in the strict form YYYY-MM-DD that names a calendar date.
IsIsoDate(x) ==
  /\ x.t = "str"
  /\ Len(x.v) = 10
  /\ \A i \in {1, 2, 3, 4, 6, 7, 9, 10} : IsDigit(x.v[i])
  /\ x.v[5] = "-" /\ x.v[8] = "-"
  /\ StrpTime(x.v).ok

\* A JSON number within [-limit, limit] (limit in hundredths).
IsNumberWithin(x, limit) ==
  /\ x.t \in {"int", "float"}
  /\ -limit <= Hundredths(x) /\ Hundredths(x) <= limit

\* Date a is later than date b.
Later(a, b) ==
  \/ a.y > b.y
  \/ a.y = b.y /\ a.m > b.m
  \/ a.y = b.y /\ a.m = b.m /\ a.d > b.d

HasAllFields(data) ==
  data.t = "dict" /\ \A i \in 1..4 : \E j \in 1..Len(data.v) : data.v[j][1] = required_fields[i]

\* A parsed JSON body that fails one of the documented validation checks.
FailsValidation(req) ==
  /\ req.json /\ req.parses
  /\ \/ ~HasAllFields(req.data)
     \/ ~IsNumberWithin(Lookup(req.data, K_latitude), 9000)
     \/ ~IsNumberWithin(Lookup(req.data, K_longitude), 18000)
     \/ ~IsIsoDate(Lookup(req.data, K_start_date))
     \/ ~IsIsoDate(Lookup(req.data, K_end_date))
     \/ Later(StrpTime(Lookup(req.data, K_start_date).v), StrpTime(Lookup(req.data, K_end_date).v))

\* A request that reaches the range check of line 140: every field is there,
\* the coordinates are valid and both dates pass validate_date_format.
ReachesRangeCheck(req) ==
  /\ req.json /\ req.parses /\ HasAllFields(req.data)
  /\ validate_coordinates(Lookup(req.data, K_latitude), Lookup(req.data, K_longitude))
  /\ validate_date_format(Lookup(req.data, K_start_date)) = "True"
  /\ validate_date_format(Lookup(req.data, K_end_date)) = "True"

\* f is weather_data_lat<la>_lon<lo>_<sd>_to_<ed>_<YYYYMMDD_HHMMSS>.json
MatchesPattern(f, la, lo, sd, ed) ==
  LET a == 1 + Len(la)
      b == a + 1 + Len(lo)
      c == b + 1 + Len(sd)
      d == c + 1 + Len(ed)
  IN /\ Len(f) = d + 17
     /\ f[1] = "weather_data_lat" /\ SubSeq(f, 2, a) = la
     /\ f[a + 1] = "_lon" /\ SubSeq(f, a + 2, b) = lo
     /\ f[b + 1] = "_" /\ SubSeq(f, b + 2, c) = sd
     /\ f[c + 1] = "_to_" /\ SubSeq(f, c + 2, d) = ed
     /\ f[d + 1] = "_"
     /\ \A i \in (d + 2)..(d + 9) : IsDigit(f[i])
     /\ f[d + 10] = "_"
     /\ \A i \in (d + 11)..(d + 16) : IsDigit(f[i])
     /\ f[d + 17] = ".json"

\* The documents uploaded under filename f.
UploadedAs(f) == {uploads[i].data : i \in {j \in 1..Len(uploads) : uploads[j].filename = f}}

UploadCount(f) == Cardinality({j \in 1..Len(uploads) : uploads[j].filename = f})

(***************************************************************************)
(* Claims.                                                                 *)
(***************************************************************************)

\* C1: every parsed JSON body of a store request that fails a validation check
\* (a field missing, a coordinate not numeric or out of range, a date not a
\* YYYY-MM-DD date, the range inverted) is answered 400, never 500.
C1_ValidationFailureAnswers400 ==
  (handled = 1 /\ FailsValidation(vreq)) => vout.status = 400

\* C2 as claimed: a read of filename F that begins after a store request was
\* answered 201 with F for document A answers 200 with data A, in every
\* storage mode (blob-store calls of the read that raise set aside).
C2_RoundTrip ==
  \A p \in Threads :
    (ReadDone(p) /\ th[p].failed \notin StorageCalls) =>
      \A a \in th[p].ackedBefore : th[p].resp.status = 200 /\ th[p].resp.data = a.data

\* C2 as amended: when the store and the read both ran with a live storage
\* client and no blob-store call of the read raised, the read answers 200 with
\* a document that was uploaded under F, which is A when F was uploaded once;
\* a read in mock mode answers 200 with the sample document.
C2_RoundTripLive ==
  \A p \in Threads :
    (ReadDone(p) /\ th[p].failed \notin StorageCalls) =>
      \A a \in th[p].ackedBefore :
        IF th[p].mock THEN th[p].resp.status = 200 /\ th[p].resp.data = SampleData
        ELSE a.live =>
               /\ th[p].resp.status = 200
               /\ th[p].resp.filename = a.filename
               /\ th[p].resp.data \in UploadedAs(a.filename)
               /\ UploadCount(a.filename) = 1 => th[p].resp.data = a.data

C2_Witness ==
  \E p \in Threads :
    /\ ReadDone(p) /\ ~th[p].mock /\ th[p].failed = ""
    /\ \E a \in th[p].ackedBefore : a.live /\ th[p].resp.status = 200 /\ th[p].resp.data = a.data

\* C3: a store request whose remote call fails is answered 502 and has written
\* nothing to the blob store.
C3_FetchFailureAnswers502 ==
  \A p \in Threads :
    (StoreDone(p) /\ th[p].failed = "fetch") =>
      /\ th[p].resp.status = 502
      /\ th[p].attempts = 0 /\ th[p].written = 0
      /\ \A i \in 1..Len(uploads) : uploads[i].filename # th[p].filename

C3_Witness == \E p \in Threads : StoreDone(p) /\ th[p].failed = "fetch" /\ th[p].fetches = 1

\* C4 as claimed: a store request that passes validation and whose remote call
\* succeeds is answered 201 with a filename of the documented form built from
\* its values, and with location and date_range equal to its values.
C4_ValidStoreAnswers201 ==
  \A p \in Threads :
    (StoreDone(p) /\ th[p].fetchOk) =>
      LET d == th[p].req.data
      IN /\ th[p].resp.status = 201
         /\ MatchesPattern(th[p].resp.filename, Format(Lookup(d, K_latitude)),
                           Format(Lookup(d, K_longitude)), Lookup(d, K_start_date).v,
                           Lookup(d, K_end_date).v)
         /\ th[p].resp.location = <<Lookup(d, K_latitude), Lookup(d, K_longitude)>>
         /\ th[p].resp.date_range = <<Lookup(d, K_start_date), Lookup(d, K_end_date)>>

\* C4 as amended: the same, for the store requests none of whose blob-store
\* calls raised (the storage client live or mocked).
C4_ValidStoreAnswers201UnlessStorageRaises ==
  \A p \in Threads :
    (StoreDone(p) /\ th[p].fetchOk /\ th[p].failed = "") =>
      LET d == th[p].req.data
      IN /\ th[p].resp.status = 201
         /\ MatchesPattern(th[p].resp.filename, Format(Lookup(d, K_latitude)),
                           Format(Lookup(d, K_longitude)), Lookup(d, K_start_date).v,
                           Lookup(d, K_end_date).v)
         /\ th[p].resp.location = <<Lookup(d, K_latitude), Lookup(d, K_longitude)>>
         /\ th[p].resp.date_range = <<Lookup(d, K_start_date), Lookup(d, K_end_date)>>

C4_Witness ==
  \E p \in Threads :
    StoreDone(p) /\ th[p].fetchOk /\ th[p].failed = "" /\ th[p].resp.status = 201 /\ ~th[p].mock

\* C5 as claimed: a read of a filename that is not a key of the blob store is
\* answered 404 in every storage mode (blob-store calls that raise set aside).
C5_MissingFileAnswers404 ==
  \A p \in Threads :
    (ReadDone(p) /\ th[p].absent /\ th[p].failed \notin StorageCalls) =>
      th[p].resp.status = 404

\* C5 as amended: such a read is answered 404 when the storage client is live
\* and no blob-store call raises, 200 with the sample document in mock mode,
\* and 500 when a blob-store call raises.
C5_MissingFileAnswers404WhenLive ==
  \A p \in Threads :
    (ReadDone(p) /\ th[p].absent) =>
      IF th[p].failed \in StorageCalls THEN th[p].resp.status = 500
      ELSE IF th[p].mock THEN th[p].resp.status = 200 /\ th[p].resp.data = SampleData
      ELSE th[p].resp.status = 404 /\ th[p].resp.error = "File not found"

C5_Witness ==
  \E p \in Threads :
    ReadDone(p) /\ th[p].absent /\ ~th[p].mock /\ th[p].failed = "" /\ th[p].client # 0

\* C6: what is stored under a filename never changes: no later request
\* removes it or writes another document under it.
C6_StoredArtifactImmutable ==
  [][\A f \in DOMAIN blobs : f \in DOMAIN blobs' /\ blobs'[f] = blobs[f]]_vars

\* C7: for dates that both pass validate_date_format, the request is rejected
\* as an inverted range exactly when start_date is the later calendar date.
C7_RangeCheckIsChronological ==
  (handled = 1 /\ ReachesRangeCheck(vreq)) =>
    ((vout.status = 400 /\ vout.error = "start_date must be before or equal to end_date")
       <=> Later(StrpTime(Lookup(vreq.data, K_start_date).v),
                 StrpTime(Lookup(vreq.data, K_end_date).v)))

\* C8: storage.Client() returns a client at most once, and all the requests
\* that obtain a client obtain the same one.
C8_ClientConstructedOnce ==
  /\ clientsMade <= 1
  /\ \A p, q \in Threads :
       (th[p].client # 0 /\ th[q].client # 0) => th[p].client = th[q].client

\* C9: get_bucket never fails because the bucket was created between its
\* exists() check and its create_bucket() call.
C9_GetBucketIdempotent == \A p \in Threads : th[p].failed # "conflict"

\* A store request whose remote call succeeded and one of whose blob-store
\* steps (client initialisation, bucket lookup or creation, upload) failed.
StoreFailedAfterFetch(p) ==
  /\ StoreDone(p) /\ th[p].fetchOk
  /\ th[p].initFailed \/ th[p].failed \in StorageCalls

====
